---- MODULE Spec2Model ----
(***************************************************************************)
(* Model of the ndd crate (src/src/lib.rs): the NonDeDuplicatedFlexible    *)
(* wrapper, its three aliases NonDeDuplicated, NonDeDuplicatedStr and      *)
(* NonDeDuplicatedCStr, their constructors and accessors, the Drop guard   *)
(* and the Sync marker.                                                    *)
(*                                                                         *)
(* Byte arrays are sequences of integers 0..255 (Rust index i is TLA+      *)
(* index i+1).  A reference is a record [addr, val]: the address it points *)
(* to and the bytes (or value) it views.                                   *)
(***************************************************************************)
EXTENDS Integers, Sequences, FiniteSets, TLC

\* Longest text / C string handed to a constructor.
MaxLen == 5
\* Largest capacity N of NonDeDuplicatedStr<N> / NonDeDuplicatedCStr<N>.
MaxN == 5

\* The bytes the inputs are drawn from: NUL, 'A', and the two bytes of the
\* UTF-8 encoding of U+00E9 (0xC3 0xA9), so that both invalid UTF-8 and
\* multi-byte characters occur.
Bytes == {0, 65, 195, 169}

VARIABLES
  \* --- SpecCtor: one constructor call followed by reads ---
  pc,       \* "start" | "constructed" | "panicked" | "returned" | "unreachable"
  call,     \* [fn, N, arg, at]: constructor, const parameter N, argument, placement
  obj,      \* the wrapper instance the constructor returned, or NoObj
  panic,    \* the panic message, "" when there was no panic
  view,     \* the reference the last get() returned, or NoRef
  \* --- SpecAddr: the statics and constants of a linked program ---
  items,    \* item -> [kind, data]: an ordinary const/static or a wrapper static
  addr,     \* item -> the address of its storage
  got,      \* item -> the set of references get() has returned on it
  \* --- SpecDrop: instances in static, local, const, heap and leaked storage ---
  cfg,      \* [debug_assertions, miri]: the build configuration
  inst,     \* instance -> [storage, life]
  fault,    \* the panic message of the Drop guard, "" when it did not fire
  \* --- SpecSync: concurrent readers of one static ---
  slot,     \* the wrapper instance in the static
  given,    \* the value handed to its constructor
  rpc,      \* reader -> "idle" | "holds_ref" | "panicked"
  held,     \* reader -> the reference it holds
  seen      \* reader -> the set of values it has read through its references

ctorVars == <<pc, call, obj, panic, view>>
addrVars == <<items, addr, got>>
dropVars == <<cfg, inst, fault>>
syncVars == <<slot, given, rpc, held, seen>>
vars == <<pc, call, obj, panic, view, items, addr, got, cfg, inst, fault,
          slot, given, rpc, held, seen>>

NoObj == [tag |-> "none"]
NoRef == [tag |-> "none"]
NoPanic == ""

(***************************************************************************)
(* Library functions the crate calls.                                      *)
(***************************************************************************)

\* core::str::from_utf8's validation: the well-formed UTF-8 byte sequences
\* (no overlong forms, no surrogates, nothing above U+10FFFF).
RECURSIVE Utf8ValidFrom(_, _)
Utf8ValidFrom(v, i) ==
  IF i > Len(v) THEN TRUE
  ELSE LET first == v[i]
           inr(k, lo, hi) == k <= Len(v) /\ v[k] >= lo /\ v[k] <= hi
           cont(k) == inr(k, 128, 191)
       IN  IF first < 128 THEN Utf8ValidFrom(v, i + 1)
           ELSE IF first >= 194 /\ first <= 223
             THEN cont(i + 1) /\ Utf8ValidFrom(v, i + 2)
           ELSE IF first = 224
             THEN inr(i + 1, 160, 191) /\ cont(i + 2) /\ Utf8ValidFrom(v, i + 3)
           ELSE IF (first >= 225 /\ first <= 236) \/ first = 238 \/ first = 239
             THEN cont(i + 1) /\ cont(i + 2) /\ Utf8ValidFrom(v, i + 3)
           ELSE IF first = 237
             THEN inr(i + 1, 128, 159) /\ cont(i + 2) /\ Utf8ValidFrom(v, i + 3)
           ELSE IF first = 240
             THEN inr(i + 1, 144, 191) /\ cont(i + 2) /\ cont(i + 3)
                  /\ Utf8ValidFrom(v, i + 4)
           ELSE IF first >= 241 /\ first <= 243
             THEN cont(i + 1) /\ cont(i + 2) /\ cont(i + 3)
                  /\ Utf8ValidFrom(v, i + 4)
           ELSE IF first = 244
             THEN inr(i + 1, 128, 143) /\ cont(i + 2) /\ cont(i + 3)
                  /\ Utf8ValidFrom(v, i + 4)
           ELSE FALSE

\* core::str::from_utf8(bytes): Ok(&str) viewing the same memory, or Err.
from_utf8(bytes) ==
  IF Utf8ValidFrom(bytes.val, 1)
    THEN [ok |-> TRUE, ref |-> [tag |-> "ref", addr |-> bytes.addr, val |-> bytes.val]]
    ELSE [ok |-> FALSE, ref |-> NoRef]

\* Position (1-based) of the first NUL byte of v, 0 when there is none (memchr).
RECURSIVE FirstNulFrom(_, _)
FirstNulFrom(v, i) ==
  IF i > Len(v) THEN 0
  ELSE IF v[i] = 0 THEN i
  ELSE FirstNulFrom(v, i + 1)

\* CStr::from_bytes_with_nul(bytes): Ok exactly when the first NUL is the
\* last byte; Err(InteriorNul) or Err(NotNulTerminated) otherwise.
from_bytes_with_nul(bytes) ==
  LET nul_pos == FirstNulFrom(bytes.val, 1)
  IN  IF nul_pos # 0 /\ nul_pos = Len(bytes.val)
        THEN [ok |-> TRUE, ref |-> [tag |-> "ref", addr |-> bytes.addr, val |-> bytes.val]]
        ELSE [ok |-> FALSE, ref |-> NoRef]

\* CStr::to_bytes: the bytes of the C string without the trailing NUL.
to_bytes(s) == SubSeq(s, 1, Len(s) - 1)

\* The panic of unreachable!().
UnreachableMsg == "internal error: entered unreachable code"

(***************************************************************************)
(* copy_bytes_to_array and bytes_to_array.                                 *)
(***************************************************************************)

\* Faulty variant of CopyLoop: the loop stops one byte short (i + 1 < len).
CopyLoopOffByOne(to, from, len, i) ==
  [k \in 1..Len(to) |-> IF k > i /\ k < len THEN from[k] ELSE to[k]]

\* The while loop of copy_bytes_to_array: to[i] = from[i] for i < len.
RECURSIVE CopyLoop(_, _, _, _)
CopyLoop(to, from, len, i) ==
  IF i < len
    THEN CopyLoop([to EXCEPT ![i + 1] = from[i + 1]], from, len, i + 1)
    ELSE to

\* Faulty variant of copy_bytes_to_array: the two families of messages are swapped.
copy_bytes_to_array_swapped(to, from, len) ==
  IF Len(from) > len THEN
    [panic |-> CASE Len(from) - len = 1 -> "Target length is 1 byte too large."
                 [] Len(from) - len = 2 -> "Target length is 2 bytes too large."
                 [] Len(from) - len = 3 -> "Target length is 3 bytes too large."
                 [] Len(from) - len = 4 -> "Target length is 4 bytes too large."
                 [] OTHER -> "Target length is more than 4 bytes too large.",
     to |-> to]
  ELSE IF Len(from) < len THEN
    [panic |-> CASE len - Len(from) = 1 -> "Target length is 1 byte too small."
                 [] len - Len(from) = 2 -> "Target length is 2 bytes too small."
                 [] len - Len(from) = 3 -> "Target length is 3 bytes too small."
                 [] len - Len(from) = 4 -> "Target length is 4 bytes too small."
                 [] OTHER -> "Target length is more than 4 bytes too small.",
     to |-> to]
  ELSE IF Len(to) # len THEN
    [panic |-> "Target slice length differs to the specified length.", to |-> to]
  ELSE
    [panic |-> NoPanic, to |-> CopyLoop(to, from, len, 0)]

\* copy_bytes_to_array(to, from, len): the panic it raises (NoPanic when
\* none) and the target slice afterwards.
copy_bytes_to_array(to, from, len) ==
  IF Len(from) > len THEN
    [panic |-> CASE Len(from) - len = 1 -> "Target length is 1 byte too small."
                 [] Len(from) - len = 2 -> "Target length is 2 bytes too small."
                 [] Len(from) - len = 3 -> "Target length is 3 bytes too small."
                 [] Len(from) - len = 4 -> "Target length is 4 bytes too small."
                 [] OTHER -> "Target length is more than 4 bytes too small.",
     to |-> to]
  ELSE IF Len(from) < len THEN
    [panic |-> CASE len - Len(from) = 1 -> "Target length is 1 byte too large."
                 [] len - Len(from) = 2 -> "Target length is 2 bytes too large."
                 [] len - Len(from) = 3 -> "Target length is 3 bytes too large."
                 [] len - Len(from) = 4 -> "Target length is 4 bytes too large."
                 [] OTHER -> "Target length is more than 4 bytes too large.",
     to |-> to]
  ELSE IF Len(to) # len THEN
    [panic |-> "Target slice length differs to the specified length.", to |-> to]
  ELSE
    [panic |-> NoPanic, to |-> CopyLoop(to, from, len, 0)]

\* bytes_to_array::<N>(bytes): [0u8; N] filled by copy_bytes_to_array.
bytes_to_array(N, bytes) ==
  LET arr == [i \in 1..N |-> 0]
      r == copy_bytes_to_array(arr, bytes, N)
  IN  [panic |-> r.panic, arr |-> r.to]

(***************************************************************************)
(* The wrapper: struct NonDeDuplicatedFlexible { cell: Cell<OWN>, _t }.    *)
(***************************************************************************)

\* Cell::new(value): a cell holding value.
Cell_new(value) == [value |-> value]

\* Offset of the field `cell` inside the wrapper, and of the value inside the
\* Cell: both types are #[repr(transparent)].
OffsetOfCell == 0

\* Cell::as_ptr(&self.cell) for a wrapper placed at self_addr.
as_ptr(self_addr) == self_addr + OffsetOfCell

\* NonDeDuplicated::new(value)
NonDeDuplicated_new(value) ==
  [panic |-> NoPanic, obj |-> [tag |-> "ndd", cell |-> Cell_new(value)]]

\* NonDeDuplicated::get(&self): &*self.cell.as_ptr()
NonDeDuplicated_get(self_addr, self) ==
  LET ptr == as_ptr(self_addr)
  IN  [tag |-> "ref", addr |-> ptr, val |-> self.cell.value]

\* NonDeDuplicatedStr::<N>::new(s)
NonDeDuplicatedStr_new(N, s) ==
  LET r == bytes_to_array(N, s)
  IN  IF r.panic # NoPanic
        THEN [panic |-> r.panic, obj |-> NoObj]
        ELSE [panic |-> NoPanic, obj |-> [tag |-> "str", cell |-> Cell_new(r.arr)]]

\* Faulty variant of NonDeDuplicatedStr::get: the bytes are copied out of the cell
\* (Cell::get) and the view is of the copy, one array further in memory.
NonDeDuplicatedStr_get_copy(self_addr, self) ==
  LET ptr == as_ptr(self_addr) + Len(self.cell.value) + 1
      bytes == [tag |-> "ref", addr |-> ptr, val |-> self.cell.value]
      res == from_utf8(bytes)
  IN  IF res.ok THEN res.ref ELSE [tag |-> "unreachable"]

\* NonDeDuplicatedStr::get(&self): the &str, or the tag "unreachable" when
\* from_utf8 returned Err.
NonDeDuplicatedStr_get(self_addr, self) ==
  LET ptr == as_ptr(self_addr)
      bytes == [tag |-> "ref", addr |-> ptr, val |-> self.cell.value]
      res == from_utf8(bytes)
  IN  IF res.ok THEN res.ref ELSE [tag |-> "unreachable"]

\* NonDeDuplicatedCStr::<N>::new(s), s a &CStr given by its bytes with the NUL.
NonDeDuplicatedCStr_new(N, s) ==
  LET r == bytes_to_array(N, to_bytes(s))
  IN  IF r.panic # NoPanic
        THEN [panic |-> r.panic, obj |-> NoObj]
        ELSE [panic |-> NoPanic, obj |-> [tag |-> "cstr", cell |-> Cell_new(r.arr)]]

\* NonDeDuplicatedCStr::<N>::new_from_bytes(arr): the Result of the early
\* validation is passed to black_box and dropped by `let _ =`.
new_from_bytes(N, arr) ==
  LET ignored == from_bytes_with_nul([tag |-> "ref", addr |-> "arr", val |-> arr])
  IN  [panic |-> NoPanic, obj |-> [tag |-> "cstr", cell |-> Cell_new(arr)]]

\* NonDeDuplicatedCStr::<N>::new_from_str(s)
new_from_str(N, s) ==
  LET arr == [i \in 1..N |-> 0]
  IN  IF N = 0
        THEN [panic |-> UnreachableMsg, obj |-> NoObj]       \* split_last_mut() is None
        ELSE LET sub_slice == SubSeq(arr, 1, N - 1)
                 r == copy_bytes_to_array(sub_slice, s, Len(s))
             IN  IF r.panic # NoPanic
                   THEN [panic |-> r.panic, obj |-> NoObj]
                   ELSE new_from_bytes(N, r.to \o <<arr[N]>>)

\* Faulty variant of NonDeDuplicatedCStr::get: it validates with from_utf8, as the
\* accessor of NonDeDuplicatedStr does.
NonDeDuplicatedCStr_get_utf8(self_addr, self) ==
  LET ptr == as_ptr(self_addr)
      bytes == [tag |-> "ref", addr |-> ptr, val |-> self.cell.value]
      res == from_utf8(bytes)
  IN  IF res.ok THEN res.ref ELSE [tag |-> "unreachable"]

\* NonDeDuplicatedCStr::get(&self): the &CStr, or the tag "unreachable" when
\* from_bytes_with_nul returned Err.
NonDeDuplicatedCStr_get(self_addr, self) ==
  LET ptr == as_ptr(self_addr)
      bytes == [tag |-> "ref", addr |-> ptr, val |-> self.cell.value]
      res == from_bytes_with_nul(bytes)
  IN  IF res.ok THEN res.ref ELSE [tag |-> "unreachable"]

(***************************************************************************)
(* SpecCtor: one constructor call on inputs drawn from bounded sets,       *)
(* followed by any number of get() calls on the instance it returned.      *)
(***************************************************************************)

\* All byte sequences of length at most n.
SeqsUpTo(n) == UNION {[1..k -> Bytes] : k \in 0..n}

\* The values of type &str: well-formed UTF-8.
Strs == {s \in SeqsUpTo(MaxLen) : Utf8ValidFrom(s, 1)}

\* The values of type &CStr: no NUL but the last byte.
CStrs == {s \o <<0>> : s \in {t \in SeqsUpTo(MaxLen) : \A i \in 1..Len(t) : t[i] # 0}}

\* Where the instance under construction is placed.
NumAddrs == 2
Addrs == 1..NumAddrs

Calls ==
       [fn : {"NonDeDuplicatedStr::new", "new_from_str"}, N : 0..MaxN, arg : Strs, at : Addrs]
  \cup [fn : {"NonDeDuplicatedCStr::new"}, N : 0..MaxN, arg : CStrs, at : Addrs]
  \cup UNION {[fn : {"new_from_bytes"}, N : {n}, arg : [1..n -> Bytes], at : Addrs] :
                n \in 0..MaxN}

\* The variables of the other specifications, which SpecCtor leaves alone.
CtorIdle ==
  /\ pc = "idle" /\ call = <<>> /\ obj = NoObj /\ panic = NoPanic /\ view = NoRef
AddrIdle == items = <<>> /\ addr = <<>> /\ got = <<>>
DropIdle == cfg = <<>> /\ inst = <<>> /\ fault = NoPanic
SyncIdle == slot = NoObj /\ given = <<>> /\ rpc = <<>> /\ held = <<>> /\ seen = <<>>

InitCtor ==
  /\ pc = "start"
  /\ call \in Calls
  /\ obj = NoObj
  /\ panic = NoPanic
  /\ view = NoRef
  /\ AddrIdle /\ DropIdle /\ SyncIdle

\* The end of a constructor call that returned r = [panic, obj].
Constructed(r) ==
  /\ pc' = IF r.panic # NoPanic THEN "panicked" ELSE "constructed"
  /\ panic' = r.panic
  /\ obj' = r.obj
  /\ UNCHANGED <<call, view>>
  /\ UNCHANGED <<addrVars, dropVars, syncVars>>

StrNew ==
  /\ pc = "start" /\ call.fn = "NonDeDuplicatedStr::new"
  /\ Constructed(NonDeDuplicatedStr_new(call.N, call.arg))

CStrNew ==
  /\ pc = "start" /\ call.fn = "NonDeDuplicatedCStr::new"
  /\ Constructed(NonDeDuplicatedCStr_new(call.N, call.arg))

NewFromBytes ==
  /\ pc = "start" /\ call.fn = "new_from_bytes"
  /\ Constructed(new_from_bytes(call.N, call.arg))

NewFromStr ==
  /\ pc = "start" /\ call.fn = "new_from_str"
  /\ Constructed(new_from_str(call.N, call.arg))

\* The end of a get() call that returned r: a reference, or unreachable!().
Got(r) ==
  /\ pc' = IF r.tag = "unreachable" THEN "unreachable" ELSE "returned"
  /\ panic' = IF r.tag = "unreachable" THEN UnreachableMsg ELSE panic
  /\ view' = IF r.tag = "unreachable" THEN view ELSE r
  /\ UNCHANGED <<call, obj>>
  /\ UNCHANGED <<addrVars, dropVars, syncVars>>

StrGet ==
  /\ pc \in {"constructed", "returned"} /\ obj.tag = "str"
  /\ Got(NonDeDuplicatedStr_get(call.at, obj))

CStrGet ==
  /\ pc \in {"constructed", "returned"} /\ obj.tag = "cstr"
  /\ Got(NonDeDuplicatedCStr_get(call.at, obj))

NextCtor == StrNew \/ CStrNew \/ NewFromBytes \/ NewFromStr \/ StrGet \/ CStrGet

SpecCtor == InitCtor /\ [][NextCtor]_vars



(***************************************************************************)
(* Properties of the constructors and accessors (SpecCtor).                *)
(***************************************************************************)

\* A well-formed NUL-terminated array: NUL at the last position and nowhere else.
WellFormedCStr(a) ==
  /\ Len(a) >= 1
  /\ a[Len(a)] = 0
  /\ \A i \in 1..(Len(a) - 1) : a[i] # 0

NulFree(s) == \A i \in 1..Len(s) : s[i] # 0

\* A message that names the number d of mismatching bytes.
ExactMsg(d, word) ==
  "Target length is " \o ToString(d) \o (IF d = 1 THEN " byte" ELSE " bytes")
    \o " too " \o word \o "."

\* The message for a mismatch of d bytes: exact up to 4, "more than 4" beyond.
UpTo4Msg(d, word) ==
  IF d <= 4 THEN ExactMsg(d, word)
  ELSE "Target length is more than 4 bytes too " \o word \o "."

StrNewCalled == pc # "start" /\ call.fn = "NonDeDuplicatedStr::new"

\* C4: NonDeDuplicatedStr::<N>::new(s) with s of exactly N bytes succeeds, and
\* every get() after it returns a view of N bytes equal to s byte for byte.
StrRoundTrip ==
  (StrNewCalled /\ Len(call.arg) = call.N) =>
     /\ pc \in {"constructed", "returned"}
     /\ obj.tag = "str"
     /\ pc = "returned" =>
          /\ Len(view.val) = call.N
          /\ \A i \in 1..call.N : view.val[i] = call.arg[i]

StrRoundTripWitness ==
  /\ StrNewCalled /\ pc = "returned"
  /\ call.N >= 3 /\ Len(call.arg) = call.N
  /\ \E i \in 1..call.N : call.arg[i] = 195
  /\ view.val = call.arg

\* C5: new_from_bytes(a) with a well-formed, then get(), returns a view with
\* the bytes of a; new_from_str(s) with s NUL-free of N-1 bytes, then get(),
\* returns a view of the bytes of s followed by one NUL.
CStrRoundTrip ==
  /\ (pc # "start" /\ call.fn = "new_from_bytes" /\ WellFormedCStr(call.arg)) =>
       /\ pc \in {"constructed", "returned"}
       /\ pc = "returned" => view.val = call.arg
  /\ (pc # "start" /\ call.fn = "new_from_str" /\ NulFree(call.arg)
        /\ Len(call.arg) = call.N - 1) =>
       /\ pc \in {"constructed", "returned"}
       /\ pc = "returned" => view.val = call.arg \o <<0>>

CStrRoundTripWitness ==
  /\ pc = "returned" /\ call.fn = "new_from_str"
  /\ call.N >= 3 /\ Len(call.arg) = call.N - 1 /\ NulFree(call.arg)
  /\ view.val = call.arg \o <<0>>

CStrFromBytesWitness ==
  /\ pc = "returned" /\ call.fn = "new_from_bytes"
  /\ call.N >= 3 /\ WellFormedCStr(call.arg)
  /\ view.val = call.arg

\* C6 as stated: NonDeDuplicatedStr::<N>::new(s) with s not of N bytes fails,
\* with a message that names the exact number of mismatching bytes, for every
\* size of mismatch.
StrNewMsgExact ==
  (StrNewCalled /\ Len(call.arg) # call.N) =>
     /\ pc = "panicked" /\ obj = NoObj
     /\ panic = IF Len(call.arg) > call.N
                  THEN ExactMsg(Len(call.arg) - call.N, "small")
                  ELSE ExactMsg(call.N - Len(call.arg), "large")

\* C6 as amended: NonDeDuplicatedStr::<N>::new(s) with s not of N bytes fails
\* and produces no wrapper; an input too long is reported as a target "too
\* small" and one too short as "too large"; the message names the exact number
\* of bytes for a mismatch of 1 to 4 bytes and says "more than 4 bytes" beyond.
StrNewRejectsBySize ==
  (StrNewCalled /\ Len(call.arg) # call.N) =>
     /\ pc = "panicked" /\ obj = NoObj
     /\ panic = IF Len(call.arg) > call.N
                  THEN UpTo4Msg(Len(call.arg) - call.N, "small")
                  ELSE UpTo4Msg(call.N - Len(call.arg), "large")

StrNewRejectsWitness ==
  /\ StrNewCalled /\ pc = "panicked"
  /\ call.N - Len(call.arg) >= 5
  /\ panic = "Target length is more than 4 bytes too large."

\* C7 as stated: new_from_bytes(a) with a malformed (an interior NUL, or no NUL
\* at the last position) fails at construction and produces no wrapper.
NewFromBytesRejectsMalformed ==
  (pc # "start" /\ call.fn = "new_from_bytes" /\ ~WellFormedCStr(call.arg)) =>
     pc = "panicked" /\ obj = NoObj

\* C8 as stated: no get() on an instance a constructor returned reaches
\* unreachable!().
GetNeverUnreachable == pc # "unreachable"

\* C10 as stated: new_from_str(s) produces a wrapper only when s is NUL-free
\* and of exactly N-1 bytes, and panics at construction otherwise.
NewFromStrEnforcesPrecondition ==
  (pc # "start" /\ call.fn = "new_from_str"
     /\ ~(NulFree(call.arg) /\ Len(call.arg) = call.N - 1)) =>
     pc = "panicked" /\ obj = NoObj


(***************************************************************************)
(* SpecAddr: the constants and statics of one linked program.  Every item  *)
(* is an ordinary const (a promoted constant or literal), an ordinary      *)
(* static, or a static holding a wrapper.  The build places the items and  *)
(* may merge content-equal immutable items; the program then calls get().  *)
(***************************************************************************)

\* Number of consts and statics in the program.
NumItems == 3
Items == 1..NumItems
\* Calls of get() on one instance.
MaxGets == 2

ItemKinds == <<"const", "static", "ndd", "str", "cstr">>
\* The contents: the empty array (a zero-sized value) and the array [0],
\* which is the text "\0" and the empty C string.
Contents == << <<>>, <<0>> >>

\* The item of the given kind initialised from content c, as the statics of
\* tests_behavior_with_ndd and cross_crate_demo_fix are.
MakeItem(k, c) ==
  CASE k \in {"const", "static"} -> [kind |-> k, data |-> c]
    [] k = "ndd"  -> [kind |-> k, data |-> NonDeDuplicated_new(c).obj]
    [] k = "str"  -> [kind |-> k, data |-> NonDeDuplicatedStr_new(Len(c), c).obj]
    [] k = "cstr" -> [kind |-> k, data |-> new_from_bytes(Len(c), c).obj]

IsWrapper(it) == it.kind \in {"ndd", "str", "cstr"}

\* The bytes an item stores.
StoredBytes(it) == IF IsWrapper(it) THEN it.data.cell.value ELSE it.data

\* #[repr(transparent)]: the wrapper has the size of OWN (N bytes for [u8; N]).
SizeOf(it) == Len(StoredBytes(it))

\* Whether the optimizer may give the item's storage to another item of equal
\* content: only an item without interior mutability is an immutable constant
\* to it; the wrapper's field is a Cell<OWN>.
Mergeable(it) == ~IsWrapper(it)

\* The programs: NumItems items, listed in a canonical order.
Programs ==
  LET n == Len(ItemKinds) * Len(Contents)
      kindOf(c) == ItemKinds[((c - 1) \div Len(Contents)) + 1]
      contentOf(c) == Contents[((c - 1) % Len(Contents)) + 1]
  IN  {[i \in Items |-> MakeItem(kindOf(f[i]), contentOf(f[i]))] :
         f \in {g \in [Items -> 1..n] : \A i \in Items : i = 1 \/ g[i - 1] <= g[i]}}

\* The placements of a program: items of non-zero size occupy disjoint storage
\* (item i at address i); a zero-sized item occupies none, so its address may
\* be that of any item.
Placements(prog) ==
  {a \in [Items -> Items] : \A i \in Items : SizeOf(prog[i]) > 0 => a[i] = i}

InitAddr ==
  /\ items \in Programs
  /\ addr \in Placements(items)
  /\ got = [i \in Items |-> <<>>]
  /\ CtorIdle /\ DropIdle /\ SyncIdle

\* One merge step of the optimizer: item j is given the storage of item i.
Merge ==
  \E i \in Items, j \in Items :
    /\ i # j
    /\ Mergeable(items[i]) /\ Mergeable(items[j])
    /\ StoredBytes(items[i]) = StoredBytes(items[j])
    /\ addr[i] # addr[j]
    /\ addr' = [addr EXCEPT ![j] = addr[i]]
    /\ UNCHANGED <<items, got>>
    /\ UNCHANGED <<ctorVars, dropVars, syncVars>>

\* A get() call on item i that returned the reference r.
Returned(i, r) ==
  /\ Len(got[i]) < MaxGets
  /\ r.tag = "ref"
  /\ got' = [got EXCEPT ![i] = Append(@, r)]
  /\ UNCHANGED <<items, addr>>
  /\ UNCHANGED <<ctorVars, dropVars, syncVars>>

GetNdd ==
  \E i \in Items :
    /\ items[i].kind = "ndd"
    /\ Returned(i, NonDeDuplicated_get(addr[i], items[i].data))

GetStr ==
  \E i \in Items :
    /\ items[i].kind = "str"
    /\ Returned(i, NonDeDuplicatedStr_get(addr[i], items[i].data))

GetCStr ==
  \E i \in Items :
    /\ items[i].kind = "cstr"
    /\ Returned(i, NonDeDuplicatedCStr_get(addr[i], items[i].data))

NextAddr == Merge \/ GetNdd \/ GetStr \/ GetCStr

SpecAddr == InitAddr /\ [][NextAddr]_vars


(***************************************************************************)
(* SpecDrop: the Drop guard.  Instances are created in static, local,      *)
(* const, heap or leaked storage under one build configuration.           *)
(***************************************************************************)

NumInsts == 2
Insts == 1..NumInsts

DropMsg == "Do not use for local variables, const, or on heap. Use for static variables only."

\* Faulty variant of drop: the panic is not under #[cfg(any(debug_assertions, miri))].
drop_unconditional(c) == DropMsg

\* <NonDeDuplicatedFlexible as Drop>::drop under build configuration c: the
\* panic it raises, NoPanic when the panic is compiled out.
drop(c) == IF c.debug_assertions \/ c.miri THEN DropMsg ELSE NoPanic

InitDrop ==
  /\ cfg \in [debug_assertions : BOOLEAN, miri : BOOLEAN]
  /\ inst = [i \in Insts |-> [storage |-> "none", life |-> "absent"]]
  /\ fault = NoPanic
  /\ CtorIdle /\ AddrIdle /\ SyncIdle

\* NonDeDuplicated::new(()) placed in a static, bound by `let`, used through a
\* const item (a temporary), or boxed.
Create ==
  \E i \in Insts, s \in {"static", "local", "const", "heap"} :
    /\ fault = NoPanic
    /\ inst[i].life = "absent"
    /\ NonDeDuplicated_new(<<>>).panic = NoPanic
    /\ inst' = [inst EXCEPT ![i] = [storage |-> s, life |-> "valid-static"]]
    /\ UNCHANGED <<cfg, fault>>
    /\ UNCHANGED <<ctorVars, addrVars, syncVars>>

\* Box::leak: the boxed instance is never dropped.
Leak ==
  \E i \in Insts :
    /\ fault = NoPanic
    /\ inst[i] = [storage |-> "heap", life |-> "valid-static"]
    /\ inst' = [inst EXCEPT ![i].storage = "leaked"]
    /\ UNCHANGED <<cfg, fault>>
    /\ UNCHANGED <<ctorVars, addrVars, syncVars>>

\* The instance goes out of scope (or its Box is dropped): drop() runs.
Drop ==
  \E i \in Insts :
    /\ fault = NoPanic
    /\ inst[i].life = "valid-static"
    /\ inst[i].storage \in {"local", "const", "heap"}
    /\ inst' = [inst EXCEPT ![i].life = "torn-down"]
    /\ fault' = drop(cfg)
    /\ UNCHANGED cfg
    /\ UNCHANGED <<ctorVars, addrVars, syncVars>>

NextDrop == Create \/ Leak \/ Drop

SpecDrop == InitDrop /\ [][NextDrop]_vars

(***************************************************************************)
(* SpecSync: one wrapper in a static, read by concurrent readers (the      *)
(* wrapper is Sync).  Each reader calls get() and then reads through the   *)
(* reference it was given.                                                 *)
(***************************************************************************)

NumReaders == 3
Readers == 1..NumReaders

\* The statics the readers share: [kind, value, at].
SharedStatics ==
  [kind : {"ndd", "str", "cstr"}, value : {<<65>>, <<65, 0>>}, at : Addrs]

\* The instance the initializer of the static d builds.
StaticInit(d) ==
  CASE d.kind = "ndd"  -> NonDeDuplicated_new(d.value).obj
    [] d.kind = "str"  -> NonDeDuplicatedStr_new(Len(d.value), d.value).obj
    [] d.kind = "cstr" -> new_from_bytes(Len(d.value), d.value).obj

\* get() of the variant of the instance.
get(self_addr, self) ==
  CASE self.tag = "ndd"  -> NonDeDuplicated_get(self_addr, self)
    [] self.tag = "str"  -> NonDeDuplicatedStr_get(self_addr, self)
    [] self.tag = "cstr" -> NonDeDuplicatedCStr_get(self_addr, self)

InitSync ==
  /\ given \in SharedStatics
  /\ slot = StaticInit(given)
  /\ rpc = [r \in Readers |-> "idle"]
  /\ held = [r \in Readers |-> NoRef]
  /\ seen = [r \in Readers |-> {}]
  /\ CtorIdle /\ AddrIdle /\ DropIdle

\* Faulty variant of ReaderGet: get() moves the value out of the cell (Cell::take),
\* leaving the default value behind.
ReaderGetTaking ==
  \E r \in Readers :
    /\ rpc[r] = "idle"
    /\ LET res == get(given.at, slot)
       IN  /\ rpc' = [rpc EXCEPT ![r] = IF res.tag = "ref" THEN "holds_ref" ELSE "panicked"]
           /\ held' = [held EXCEPT ![r] = IF res.tag = "ref" THEN res ELSE @]
    /\ slot' = [slot EXCEPT !.cell.value = [i \in 1..Len(@) |-> 0]]
    /\ UNCHANGED <<given, seen>>
    /\ UNCHANGED <<ctorVars, addrVars, dropVars>>

\* Reader r calls get(&self) on the static: it obtains a reference, or panics
\* in unreachable!().  The call takes &self and writes nothing.
ReaderGet ==
  \E r \in Readers :
    /\ rpc[r] = "idle"
    /\ LET res == get(given.at, slot)
       IN  /\ rpc' = [rpc EXCEPT ![r] = IF res.tag = "ref" THEN "holds_ref" ELSE "panicked"]
           /\ held' = [held EXCEPT ![r] = IF res.tag = "ref" THEN res ELSE @]
    /\ UNCHANGED <<slot, given, seen>>
    /\ UNCHANGED <<ctorVars, addrVars, dropVars>>

\* Reader r reads the slot through the reference it holds.
ReaderRead ==
  \E r \in Readers :
    /\ rpc[r] = "holds_ref"
    /\ held[r].addr = as_ptr(given.at)
    /\ seen' = [seen EXCEPT ![r] = @ \cup {slot.cell.value}]
    /\ rpc' = [rpc EXCEPT ![r] = "idle"]
    /\ UNCHANGED <<slot, given, held>>
    /\ UNCHANGED <<ctorVars, addrVars, dropVars>>

NextSync == ReaderGet \/ ReaderRead

SpecSync == InitSync /\ [][NextSync]_vars

(***************************************************************************)
(* Properties of addresses (SpecAddr).                                     *)
(***************************************************************************)

\* The addresses get() has returned on item i.
GotAddrs(i) == {got[i][k].addr : k \in 1..Len(got[i])}

\* C1 as stated: the address get() returns on a wrapper static is never the
\* address get() returns on another wrapper static, nor the address of an
\* ordinary const or static, whatever merges the optimizer makes.
AddressUnique ==
  \A i \in Items : \A j \in Items \ {i} :
    IsWrapper(items[i]) =>
      /\ IsWrapper(items[j]) => GotAddrs(i) \cap GotAddrs(j) = {}
      /\ ~IsWrapper(items[j]) => addr[j] \notin GotAddrs(i)

\* The same, for the items of non-zero size: this part holds.
AddressUniqueNonZeroSize ==
  \A i \in Items : \A j \in Items \ {i} :
    (IsWrapper(items[i]) /\ SizeOf(items[i]) > 0 /\ SizeOf(items[j]) > 0) =>
      /\ IsWrapper(items[j]) => GotAddrs(i) \cap GotAddrs(j) = {}
      /\ ~IsWrapper(items[j]) => addr[j] \notin GotAddrs(i)

\* C2: every get() on an instance returns the address of its Cell slot, the
\* same as every earlier call, however the calls on the instances interleave.
ReadStability ==
  \A i \in Items : \A k \in 1..Len(got[i]) :
    /\ got[i][k].addr = as_ptr(addr[i])
    /\ got[i][k].addr = got[i][1].addr

ReadStabilityWitness ==
  \E i \in Items, j \in Items :
    /\ i # j
    /\ items[i].kind = "str" /\ items[j].kind = "ndd"
    /\ StoredBytes(items[i]) = StoredBytes(items[j]) /\ SizeOf(items[i]) > 0
    /\ Len(got[i]) = 2 /\ Len(got[j]) = 2
    /\ \E k \in Items : ~IsWrapper(items[k]) /\ addr[k] # k

(***************************************************************************)
(* Property of the Drop guard (SpecDrop).                                  *)
(***************************************************************************)

TornDown == {i \in Insts : inst[i].life = "torn-down"}

\* C3: tearing down an instance in local, const or heap storage raises the
\* guard's panic under debug_assertions or miri and raises nothing in a
\* release build; an instance in a static or leaked is never torn down and
\* never raises it.
MisuseDetection ==
  /\ (TornDown # {} /\ (cfg.debug_assertions \/ cfg.miri)) =>
       fault = "Do not use for local variables, const, or on heap. Use for static variables only."
  /\ (~cfg.debug_assertions /\ ~cfg.miri) => fault = NoPanic
  /\ fault # NoPanic =>
       \E i \in TornDown : inst[i].storage \in {"local", "const", "heap"}
  /\ \A i \in Insts : inst[i].storage \in {"static", "leaked"} => i \notin TornDown

MisuseDetectionWitness ==
  /\ cfg.miri /\ ~cfg.debug_assertions
  /\ fault # NoPanic
  /\ \E i \in Insts, j \in Insts :
       /\ inst[i] = [storage |-> "leaked", life |-> "valid-static"]
       /\ inst[j] = [storage |-> "heap", life |-> "torn-down"]

ReleaseDropWitness ==
  /\ ~cfg.miri /\ ~cfg.debug_assertions
  /\ \A i \in Insts : i \in TornDown

(***************************************************************************)
(* Property of concurrent readers (SpecSync).                              *)
(***************************************************************************)

\* C9: under every interleaving of the readers, the slot holds the value given
\* at construction, every reference get() returned views that value, and every
\* reader has read exactly that value.
ConcurrentReadOnly ==
  /\ slot = StaticInit(given)
  /\ slot.cell.value = given.value
  /\ \A r \in Readers :
       /\ seen[r] \subseteq {given.value}
       /\ held[r] # NoRef => held[r].val = given.value

ConcurrentReadOnlyWitness ==
  /\ given.kind = "ndd"
  /\ \A r \in Readers : seen[r] = {given.value}
  /\ \E r \in Readers : rpc[r] = "holds_ref"
  /\ \E r \in Readers : rpc[r] = "idle"

====
